---- MODULE Spec2Model ----
(***************************************************************************)
(* Model of the Azure DevOps Queries extension (247arjun/vscode-ado):      *)
(*   - GroupingEngine  (src/src/grouping/GroupingEngine.ts)                *)
(*   - AdoClient       (src/src/ado/AdoClient.ts)                          *)
(*   - AzCliRunner     (src/unnamed/part_004, lines 202-507)               *)
(*   - Settings        (src/unnamed/part_004, lines 1-200)                 *)
(*   - AdoTreeProvider (src/src/tree/AdoTreeProvider.ts)                   *)
(*                                                                         *)
(* Eight specifications share the variables:                                *)
(*   SpecHash  GroupingEngine.computeHash on two record lists              *)
(*   SpecTree  GroupingEngine.buildTree                                    *)
(*   SpecField GroupingEngine.getFieldValue on one record and one rule     *)
(*   SpecOrder GroupingEngine.buildTree on a record list and a reordering  *)
(*   SpecLoad  one refresh() of three queries, running alone               *)
(*   SpecLive  refreshes and other commands, with the event loop running   *)
(*             every continuation and every CLI process ending             *)
(*   SpecRunner AzCliRunner.execute and the events of its processes        *)
(*   Spec      the provider, the client cache and the CLI runner           *)
(***************************************************************************)
EXTENDS Integers, Sequences, FiniteSets, TLC

VARIABLES
    \* ---- GroupingEngine inputs and results (SpecHash, SpecTree)
    workItems,      \* WorkItem[] handed to the engine
    otherItems,     \* a second WorkItem[] the first one is compared with
    groupSpecs,     \* GroupSpec[] handed to the engine
    hashA,          \* computeHash(workItems, groupSpecs)
    hashB,          \* computeHash(otherItems, groupSpecs)
    edits,          \* number of field updates applied to otherItems
    tree,           \* buildTree(workItems, groupSpecs)
    today,          \* the local calendar day new Date() falls on
    fieldKeys,      \* the keys successive getFieldValue calls returned
    enginePc,       \* "input" | "hashed" | "built" | "rendered"
    \* ---- the extension at run time (Spec)
    settings,            \* the adoQueries configuration section
    dateNow,             \* Date.now()
    cache,               \* AdoClient.cache
    concurrentProcesses, \* AzCliRunner.concurrentProcesses
    otherProcesses,      \* CLI processes running for other commands than refresh
    executions,          \* the execute() calls of the runner: resolved, proc, timer (SpecRunner)
    cachedQueries,       \* AdoTreeProvider.cachedQueries
    isLoading,           \* AdoTreeProvider.isLoading
    lastError,           \* AdoTreeProvider.lastError
    currentGeneration,   \* AdoTreeProvider.currentGeneration
    refreshTimer,        \* AdoTreeProvider.refreshTimer is set
    tasks,               \* the refresh() invocations, by their generation
    regrouped,           \* cache keys that were fresh when only the grouping changed
    calls                \* what the last step called: "buildTree", "fire" (_onDidChangeTreeData)

engineVars == <<workItems, otherItems, groupSpecs, hashA, hashB, edits, tree, today, fieldKeys, enginePc>>

clientVars == <<cache, concurrentProcesses, otherProcesses>>

providerVars == <<cachedQueries, isLoading, lastError, currentGeneration, refreshTimer, tasks>>

programVars == <<settings, dateNow, clientVars, executions, providerVars, regrouped, calls>>

vars == <<engineVars, programVars>>

(***************************************************************************)
(* Bounds of the model                                                     *)
(***************************************************************************)
MaxItems == 2       \* longest record list handed to computeHash
MaxEdits == 1       \* field updates applied to the second list
MaxTreeItems == 3   \* longest record list handed to buildTree
MaxClock == 1       \* clock ticks the extension runs for
MaxGeneration == 2  \* refresh() invocations that get past the loading guard
MaxCalls == 2       \* getFieldValue invocations on one record and rule
MaxDays == 1        \* midnights that pass between those invocations
MaxExecutions == 3  \* execute() calls made on one runner
MaxOrderItems == 3  \* longest record list built in two orders

(***************************************************************************)
(* JavaScript values.  A field value is a string, a number, an identity    *)
(* object, null or undefined (an absent key reads as undefined).           *)
(***************************************************************************)
NoAttr == [t |-> "undefined", s |-> "", n |-> 0]

Undefined == [t |-> "undefined", s |-> "", n |-> 0, displayName |-> NoAttr, uniqueName |-> NoAttr]

Null == [t |-> "null", s |-> "", n |-> 0, displayName |-> NoAttr, uniqueName |-> NoAttr]

Str(s) == [t |-> "string", s |-> s, n |-> 0, displayName |-> NoAttr, uniqueName |-> NoAttr]

Num(n) == [t |-> "number", s |-> "", n |-> n, displayName |-> NoAttr, uniqueName |-> NoAttr]

StrAttr(s) == [t |-> "string", s |-> s, n |-> 0]

Identity(dn, un) == [t |-> "object", s |-> "", n |-> 0, displayName |-> dn, uniqueName |-> un]

Alice == Identity(StrAttr("Alice"), StrAttr("alice@x.com"))

Bob == Identity(StrAttr("Bob"), StrAttr("bob@x.com"))

\* String(value) of JavaScript
JSString(v) ==
    CASE v.t = "string" -> v.s
      [] v.t = "number" -> ToString(v.n)
      [] v.t = "object" -> "[object Object]"
      [] v.t = "null" -> "null"
      [] OTHER -> "undefined"

\* value ?? dflt
Nullish(v) == v.t \in {"null", "undefined"}

(***************************************************************************)
(* Work items and grouping rules                                           *)
(***************************************************************************)
FState == "System.State"

FPriority == "Microsoft.VSTS.Common.Priority"

FAssignedTo == "System.AssignedTo"

FDueDate == "Microsoft.VSTS.Scheduling.DueDate"

FTitle == "System.Title"

FWorkItemType == "System.WorkItemType"

FieldNames == {FState, FPriority, FAssignedTo, FDueDate, FTitle, FWorkItemType}

NoFields == [f \in FieldNames |-> Undefined]

WorkItem(id, fields) == [id |-> id, fields |-> fields]

\* optional string members of a GroupSpec that are not set
UNSET == "<unset>"

GroupSpec(field, projection, missingLabel, bucket) ==
    [field |-> field, projection |-> projection, missingLabel |-> missingLabel, bucket |-> bucket]

FieldRule(field) == GroupSpec(field, UNSET, UNSET, UNSET)

(***************************************************************************)
(* Sequence helpers                                                        *)
(***************************************************************************)
RECURSIVE Join(_, _)
\* Array.prototype.join
Join(strs, sep) ==
    IF Len(strs) = 0 THEN ""
    ELSE IF Len(strs) = 1 THEN strs[1]
    ELSE strs[1] \o sep \o Join(Tail(strs), sep)

RECURSIVE DecDigits(_)
\* the decimal digits of a non-negative integer, as Number.prototype.toString writes them
DecDigits(n) == IF n < 10 THEN <<n>> ELSE DecDigits(n \div 10) \o <<n % 10>>

RECURSIVE LexLess(_, _)
\* code-unit order of two digit strings
LexLess(a, b) ==
    IF Len(b) = 0 THEN FALSE
    ELSE IF Len(a) = 0 THEN TRUE
    ELSE IF a[1] # b[1] THEN a[1] < b[1]
    ELSE LexLess(Tail(a), Tail(b))

\* JSON.stringify of a string without quotes, backslashes or control characters
JsonString(s) == "\"" \o s \o "\""

\* JSON.stringify of an array given the serialised elements
JsonArray(elems) == "[" \o Join(elems, ",") \o "]"

(***************************************************************************)
(* GroupingEngine.getFieldValue and getDateBucket                          *)
(***************************************************************************)
\* workItem.fields[name]: a key the record does not carry reads as undefined
FieldOf(wi, name) == IF name \in DOMAIN wi.fields THEN wi.fields[name] ELSE Undefined

\* the default label whatever the rule sets
MissingLabelOf_Default(spec) == "(none)"

\* spec.missingLabel ?? '(none)'
MissingLabelOf(spec) == IF spec.missingLabel = UNSET THEN "(none)" ELSE spec.missingLabel

\* identityValue[name] for the attributes an identity carries
AttrOf(v, name) ==
    IF name = "displayName" THEN v.displayName
    ELSE IF name = "uniqueName" THEN v.uniqueName
    ELSE NoAttr

\* 'name' in identityValue
HasAttr(v, name) == AttrOf(v, name).t # "undefined"

\* typeof projectedValue === 'string' alone
TruthyString_AnyString(a) == a.t = "string"

\* projectedValue && typeof projectedValue === 'string'
TruthyString(a) == a.t = "string" /\ a.s # ""

\* JSON.stringify of one attribute value
JsonAttr(a) ==
    CASE a.t = "string" -> JsonString(a.s)
      [] a.t = "number" -> ToString(a.n)
      [] OTHER -> "null"

\* JSON.stringify(value) of an object value: absent attributes are left out
JsonObject(v) ==
    LET parts == (IF HasAttr(v, "displayName") THEN <<"\"displayName\":" \o JsonAttr(v.displayName)>> ELSE <<>>)
                 \o (IF HasAttr(v, "uniqueName") THEN <<"\"uniqueName\":" \o JsonAttr(v.uniqueName)>> ELSE <<>>)
    IN  "{" \o Join(parts, ",") \o "}"

\* local calendar days, counted from 2026-11-01
FirstDay == 5

DaysPerWeek == 7

NaN == [nan |-> TRUE, v |-> 0]

Number(n) == [nan |-> FALSE, v |-> n]

\* new Date(string) followed by setHours(0, 0, 0, 0): the local calendar day of
\* the strings the model uses, NaN for a string that is no date
ParseLocalDay(str) ==
    CASE str = "2020-01-01T00:00:00Z" -> Number(0 - 2496)
      [] str = "2" -> Number(0 - 9403)     \* V8 reads a lone number as a month of 2001
      [] str = "3" -> Number(0 - 9375)
      [] str = "10" -> Number(0 - 9161)
      [] str = "2026-11-04T09:30:00" -> Number(4)
      [] str = "2026-11-05T23:59:00" -> Number(5)
      [] str = "2026-11-06T00:00:00" -> Number(6)
      [] str = "2026-11-07T18:00:00" -> Number(7)
      [] str = "2026-11-11T08:00:00" -> Number(11)
      [] str = "2026-11-12T00:00:00" -> Number(12)
      [] str = "2026-11-13T00:00:00" -> Number(13)
      [] str = "2099-12-31T00:00:00Z" -> Number(26723)
      [] OTHER -> NaN

\* a week that includes the day seven days from today
getDateBucket_WeekInclusive(value, now) ==
    IF Nullish(value) \/ (value.t = "string" /\ value.s = "") THEN "none"
    ELSE IF value.t # "string" THEN "none"
    ELSE LET itemDate == ParseLocalDay(value.s)
             nextWeek == now + DaysPerWeek
         IN  IF itemDate.nan THEN "none"
             ELSE IF itemDate.v < now THEN "overdue"
             ELSE IF itemDate.v = now THEN "today"
             ELSE IF itemDate.v <= nextWeek THEN "thisWeek"
             ELSE "future"

getDateBucket(value, now) ==
    IF Nullish(value) \/ (value.t = "string" /\ value.s = "") THEN "none"
    ELSE IF value.t # "string" THEN "none"
    ELSE LET itemDate == ParseLocalDay(value.s)
             nextWeek == now + DaysPerWeek
         IN  IF itemDate.nan THEN "none"
             ELSE IF itemDate.v < now THEN "overdue"
             ELSE IF itemDate.v = now THEN "today"
             ELSE IF itemDate.v < nextWeek THEN "thisWeek"
             ELSE "future"

\* bucketing of every string that parses as a date, whatever the rule
getFieldValue_BucketsAnyDate(workItem, spec, now) ==
    LET value == FieldOf(workItem, spec.field)
    IN  IF Nullish(value) \/ (value.t = "string" /\ value.s = "") THEN MissingLabelOf(spec)
        ELSE IF value.t = "object" THEN JsonObject(value)
        ELSE IF spec.bucket = "date" \/ (value.t = "string" /\ ~ParseLocalDay(value.s).nan)
        THEN getDateBucket(value, now)
        ELSE JSString(value)

getFieldValue(workItem, spec, now) ==
    LET value == FieldOf(workItem, spec.field)
        missingLabel == MissingLabelOf(spec)
    IN  IF Nullish(value) \/ (value.t = "string" /\ value.s = "") THEN missingLabel
        ELSE IF value.t = "object"
        THEN LET projection == IF spec.projection = UNSET THEN "displayName" ELSE spec.projection
                 projectedValue == AttrOf(value, projection)
             IN  IF (HasAttr(value, "displayName") \/ HasAttr(value, "uniqueName")) /\ TruthyString(projectedValue)
                 THEN projectedValue.s
                 ELSE IF (HasAttr(value, "displayName") \/ HasAttr(value, "uniqueName")) /\ TruthyString(value.displayName)
                 THEN value.displayName.s
                 ELSE JsonObject(value)
        ELSE IF spec.bucket = "date" THEN getDateBucket(value, now)
        ELSE JSString(value)

(***************************************************************************)
(* GroupingEngine.toWorkItemNode, sortWorkItems, sortGroups, countWorkItems*)
(***************************************************************************)
DefaultPriority == 999

UnknownBucketOrder == 999

\* the url member of a node is left out: no operation of the engine reads it
toWorkItemNode(workItem) ==
    [type |-> "workItem",
     id |-> workItem.id,
     title |-> IF Nullish(FieldOf(workItem, FTitle)) THEN "Untitled" ELSE JSString(FieldOf(workItem, FTitle)),
     state |-> FieldOf(workItem, FState),
     workItemType |-> FieldOf(workItem, FWorkItemType),
     priority |-> FieldOf(workItem, FPriority)]

\* the number a priority converts to in a subtraction; the model carries
\* priorities that are numbers, null or undefined only
PriorityNumber_MissingIsZero(p) == IF Nullish(p) THEN 0 ELSE p.n

PriorityNumber(p) == IF Nullish(p) THEN DefaultPriority ELSE p.n

\* a comparison that leaves items of equal priority in input order
CompareWorkItems_NoTieBreak(a, b) == PriorityNumber(a.priority) - PriorityNumber(b.priority)

CompareWorkItems(a, b) ==
    LET priorityA == PriorityNumber(a.priority)
        priorityB == PriorityNumber(b.priority)
    IN  IF priorityA # priorityB THEN priorityA - priorityB ELSE a.id - b.id

\* a rank that puts the keys outside the table first
DATE_BUCKET_ORDER_UnknownFirst(key) ==
    CASE key = "overdue" -> 0
      [] key = "today" -> 1
      [] key = "thisWeek" -> 2
      [] key = "future" -> 3
      [] key = "none" -> 4
      [] OTHER -> 0 - 1

DATE_BUCKET_ORDER(key) ==
    CASE key = "overdue" -> 0
      [] key = "today" -> 1
      [] key = "thisWeek" -> 2
      [] key = "future" -> 3
      [] key = "none" -> 4
      [] OTHER -> UnknownBucketOrder

\* the numbers whose decimal form occurs as a group key
KeyNumbers == {0, 1, 2, 3, 10, 999, 1000}

\* parseFloat(key): the number a key starts with, NaN when it starts with none
parseFloat(key) ==
    IF \E n \in KeyNumbers : ToString(n) = key
    THEN Number(CHOOSE n \in KeyNumbers : ToString(n) = key)
    ELSE IF key = "2020-01-01T00:00:00Z" THEN Number(2020)
    ELSE IF key = "2099-12-31T00:00:00Z" THEN Number(2099)
    ELSE IF ~ParseLocalDay(key).nan THEN Number(2026)
    ELSE NaN

\* the keys of the model in the order String.prototype.localeCompare puts them
\* (punctuation, digits, letters; lower case before upper case on a tie)
CollationOrder ==
    <<"(no priority)", "(no state)", "(none)", "(unassigned)", "{}",
      "{\"displayName\":\"\"}", "{\"displayName\":\"\",\"uniqueName\":\"\"}", "{\"uniqueName\":\"\"}",
      "0", "1", "10", "1000", "2",
      "2020-01-01T00:00:00Z", "2026-11-04T09:30:00", "2026-11-05T23:59:00", "2026-11-06T00:00:00",
      "2026-11-07T18:00:00", "2026-11-11T08:00:00", "2026-11-12T00:00:00", "2026-11-13T00:00:00",
      "2099-12-31T00:00:00Z", "3", "999",
      "Active", "Alice", "alice@x.com", "Bob", "bob@x.com", "Closed", "future", "New", "none",
      "not a date", "overdue", "thisWeek", "today">>

localeCompare(a, b) ==
    LET ra == CHOOSE i \in 1..Len(CollationOrder) : CollationOrder[i] = a
        rb == CHOOSE i \in 1..Len(CollationOrder) : CollationOrder[i] = b
    IN  IF ra < rb THEN 0 - 1 ELSE IF ra > rb THEN 1 ELSE 0

\* a comparison without the rule for the missing label
CompareGroups_NoMissingRule(a, b, spec) ==
    IF spec.bucket = "date" THEN DATE_BUCKET_ORDER(a.key) - DATE_BUCKET_ORDER(b.key)
    ELSE LET numA == parseFloat(a.key)
             numB == parseFloat(b.key)
         IN  IF ~numA.nan /\ ~numB.nan THEN numA.v - numB.v ELSE localeCompare(a.key, b.key)

CompareGroups(a, b, spec) ==
    IF spec.bucket = "date" THEN DATE_BUCKET_ORDER(a.key) - DATE_BUCKET_ORDER(b.key)
    ELSE IF a.key = MissingLabelOf(spec) THEN 1
    ELSE IF b.key = MissingLabelOf(spec) THEN 0 - 1
    ELSE LET numA == parseFloat(a.key)
             numB == parseFloat(b.key)
         IN  IF ~numA.nan /\ ~numB.nan THEN numA.v - numB.v ELSE localeCompare(a.key, b.key)

\* the comparison Array.prototype.sort() uses without a comparator: by string value
DefaultCompare(a, b) ==
    IF LexLess(DecDigits(a), DecDigits(b)) THEN -1
    ELSE IF LexLess(DecDigits(b), DecDigits(a)) THEN 1 ELSE 0

\* the comparator handed to Array.prototype.sort, applied to two elements
Compare(cmp, a, b) ==
    CASE cmp.kind = "default" -> DefaultCompare(a, b)
      [] cmp.kind = "workItems" -> CompareWorkItems(a, b)
      [] cmp.kind = "groups" -> CompareGroups(a, b, cmp.spec)

Reverse(s) == [i \in 1..Len(s) |-> s[Len(s) + 1 - i]]

\* CountAndMakeRun of V8's Array.prototype.sort: the length of the run the
\* array starts with; a strictly descending run is reversed in place
RunIsDescending(s, cmp) == Compare(cmp, s[2], s[1]) < 0

RunLength(s, cmp) ==
    LET desc == RunIsDescending(s, cmp)
        ok(idx) == IF desc THEN Compare(cmp, s[idx], s[idx - 1]) < 0 ELSE Compare(cmp, s[idx], s[idx - 1]) >= 0
    IN  CHOOSE r \in 2..Len(s) :
            /\ \A idx \in 3..r : ok(idx)
            /\ r < Len(s) => ~ok(r + 1)

\* BinaryInsertionSort of V8's Array.prototype.sort: the element at position k
\* is inserted into the sorted prefix 1..k-1 at the place a binary search finds
BinaryInsert(arr, k, cmp) ==
    LET pivot == arr[k]
        search[left \in 0..k, right \in 0..k] ==
            IF left >= right THEN left
            ELSE LET mid == left + ((right - left) \div 2)
                 IN  IF Compare(cmp, pivot, arr[mid + 1]) < 0 THEN search[left, mid] ELSE search[mid + 1, right]
        pos == search[0, k - 1]
    IN  SubSeq(arr, 1, pos) \o <<pivot>> \o SubSeq(arr, pos + 1, k - 1) \o SubSeq(arr, k + 1, Len(arr))

\* Array.prototype.sort(compareFn) as V8 runs it on an array of fewer than 64
\* elements: one run is found, the rest is inserted by binary insertion
SortBy(s, cmp) ==
    IF Len(s) < 2 THEN s
    ELSE LET r == RunLength(s, cmp)
             first == IF RunIsDescending(s, cmp)
                      THEN Reverse(SubSeq(s, 1, r)) \o SubSeq(s, r + 1, Len(s))
                      ELSE s
             ins[k \in r..Len(s)] == IF k = r THEN first ELSE BinaryInsert(ins[k - 1], k, cmp)
         IN  ins[Len(s)]

\* Array.prototype.sort() without a comparator
SortDefault(ids) == SortBy(ids, [kind |-> "default"])

sortWorkItems(items) == SortBy(items, [kind |-> "workItems"])

sortGroups(groups, spec) == SortBy(groups, [kind |-> "groups", spec |-> spec])

\* a count of the direct children instead of the leaves below them
countWorkItems_DirectChildren(nodes) == Len(nodes)

RECURSIVE countWorkItems(_)
countWorkItems(nodes) ==
    IF Len(nodes) = 0 THEN 0
    ELSE (IF nodes[1].type = "workItem" THEN 1 ELSE nodes[1].count) + countWorkItems(Tail(nodes))

(***************************************************************************)
(* GroupingEngine.groupRecursive and buildTree                             *)
(***************************************************************************)
\* the keys of the Map in insertion order: each key where it first occurs
RECURSIVE GroupKeys(_)
GroupKeys(keys) ==
    IF Len(keys) = 0 THEN <<>>
    ELSE LET init == GroupKeys(SubSeq(keys, 1, Len(keys) - 1))
             last == keys[Len(keys)]
         IN  IF \E i \in 1..Len(init) : init[i] = last THEN init ELSE Append(init, last)

\* a partition that misses the record that created it
RECURSIVE GroupItems_AfterFirst(_, _, _)
GroupItems_AfterFirst(items, keys, key) ==
    IF Len(items) = 0 THEN <<>>
    ELSE LET n == Len(items)
             init == GroupItems_AfterFirst(SubSeq(items, 1, n - 1), SubSeq(keys, 1, n - 1), key)
         IN  IF keys[n] = key /\ (\E i \in 1..(n - 1) : keys[i] = key)
             THEN Append(init, items[n])
             ELSE init

\* groups.get(key): the records of a key in input order
RECURSIVE GroupItems(_, _, _)
GroupItems(items, keys, key) ==
    IF Len(items) = 0 THEN <<>>
    ELSE IF keys[1] = key
         THEN <<items[1]>> \o GroupItems(Tail(items), Tail(keys), key)
         ELSE GroupItems(Tail(items), Tail(keys), key)

\* a group node whose level counts from 1
GroupNode_LevelFromOne(key, count, children, level) ==
    [type |-> "group", key |-> key, label |-> key, count |-> count, children |-> children, level |-> level + 1]

GroupNode(key, count, children, level) ==
    [type |-> "group", key |-> key, label |-> key, count |-> count, children |-> children, level |-> level]

RECURSIVE groupRecursive(_, _, _, _)
groupRecursive(items, specs, level, now) ==
    IF level >= Len(specs)
    THEN sortWorkItems([i \in 1..Len(items) |-> toWorkItemNode(items[i])])
    ELSE LET spec == specs[level + 1]
             keys == [i \in 1..Len(items) |-> getFieldValue(items[i], spec, now)]
             groups == GroupKeys(keys)
             childrenOf(key) == groupRecursive(GroupItems(items, keys, key), specs, level + 1, now)
             groupNodes == [g \in 1..Len(groups) |->
                               GroupNode(groups[g], countWorkItems(childrenOf(groups[g])),
                                         childrenOf(groups[g]), level)]
         IN  sortGroups(groupNodes, spec)

buildTree(items, specs, now) ==
    IF Len(specs) = 0
    THEN sortWorkItems([i \in 1..Len(items) |-> toWorkItemNode(items[i])])
    ELSE groupRecursive(items, specs, 0, now)

(***************************************************************************)
(* GroupingEngine.computeHash                                              *)
(***************************************************************************)
\* a fingerprint that covers fields no rule names
HashFields_EveryField(specs) == <<FState, FAssignedTo>>

HashFields(specs) == [i \in 1..Len(specs) |-> specs[i].field]

\* fields.map(f => String(wi.fields[f] ?? '')).join('|')
HashFieldValues(wi, fields) ==
    Join([i \in 1..Len(fields) |->
            IF Nullish(wi.fields[fields[i]]) THEN "" ELSE JSString(wi.fields[fields[i]])], "|")

computeHash(items, specs) ==
    LET ids == SortDefault([i \in 1..Len(items) |-> items[i].id])
        fields == HashFields(specs)
        fieldValues == [i \in 1..Len(items) |-> HashFieldValues(items[i], fields)]
    IN  "{\"ids\":" \o JsonArray([i \in 1..Len(ids) |-> ToString(ids[i])])
          \o ",\"fieldValues\":" \o JsonArray([i \in 1..Len(fieldValues) |-> JsonString(fieldValues[i])])
          \o "}"

(***************************************************************************)
(* Settings                                                                *)
(***************************************************************************)
\* Settings.groupBy default rule and a rule on the priority
StateRule == GroupSpec(FState, UNSET, "(no state)", UNSET)

PriorityRule == FieldRule(FPriority)

\* QueryDefinition; groupBy is optional
QueryDefinition(name, queryId, queryPath, hasGroupBy, groupBy) ==
    [name |-> name, queryId |-> queryId, queryPath |-> queryPath,
     hasGroupBy |-> hasGroupBy, groupBy |-> groupBy]

QBugs == QueryDefinition("Bugs", "q-1", UNSET, FALSE, <<>>)

QTasks == QueryDefinition("Tasks", UNSET, "Shared Queries/Tasks", TRUE, <<PriorityRule>>)

\* the Tasks query grouped by state instead
QTasksByState == QueryDefinition("Tasks", UNSET, "Shared Queries/Tasks", TRUE, <<StateRule>>)

\* a query definition with neither queryId nor queryPath
QBroken == QueryDefinition("Broken", UNSET, UNSET, FALSE, <<>>)

\* the values of adoQueries.queries
QueryLists == {<<>>, <<QBugs, QTasks>>, <<QBugs, QTasksByState>>, <<QBugs, QBroken>>}

\* the values of adoQueries.groupBy
GroupByLists == {<<StateRule>>, <<PriorityRule>>}

\* the values of adoQueries.cacheTtlSeconds
CacheTtlChoices == {0, 30}

\* the values of adoQueries.refreshIntervalSeconds
RefreshIntervalChoices == {0, 30}

SettingsOrganization == "https://dev.azure.com/org"

SettingsProject == "proj"

SettingsMembers == {"queries", "groupBy", "cacheTtlSeconds", "refreshIntervalSeconds"}

SettingsChoices(member) ==
    CASE member = "queries" -> QueryLists
      [] member = "groupBy" -> GroupByLists
      [] member = "cacheTtlSeconds" -> CacheTtlChoices
      [] member = "refreshIntervalSeconds" -> RefreshIntervalChoices

DefaultSettings ==
    [queries |-> <<>>, groupBy |-> <<StateRule>>, cacheTtlSeconds |-> 30, refreshIntervalSeconds |-> 0]

MaxGroupLevels == 5

maxItems == 500

\* array.slice(0, n)
Take(s, n) == SubSeq(s, 1, IF Len(s) < n THEN Len(s) ELSE n)

\* Settings.groupBy
SettingsGroupBy(cfg) == Take(cfg.groupBy, MaxGroupLevels)

\* Settings.getActiveQueries()
getActiveQueries(cfg) == cfg.queries

\* the configuration without its grouping rules, global and per query
StripGrouping(cfg) ==
    [cfg EXCEPT !.groupBy = <<>>,
                !.queries = [i \in 1..Len(cfg.queries) |->
                                [cfg.queries[i] EXCEPT !.hasGroupBy = FALSE, !.groupBy = <<>>]]]

OnlyGroupingDiffers(a, b) == a # b /\ StripGrouping(a) = StripGrouping(b)

(***************************************************************************)
(* AzCliRunner: what a CLI process ends with                               *)
(***************************************************************************)
maxConcurrent == 2

\* an element of the JSON array az boards query prints; fields is optional
QueryResult(id, hasFields, fields) == [id |-> id, hasFields |-> hasFields, fields |-> fields]

ResultActive == QueryResult(1, TRUE, [NoFields EXCEPT ![FState] = Str("Active"), ![FPriority] = Num(2)])

ResultBare == QueryResult(2, FALSE, NoFields)

QueryResultLists == {<<>>, <<ResultActive>>, <<ResultBare, ResultActive>>}

\* the kinds of failure the runner classifies
ClassifiedTypes ==
    {"cli_not_found", "not_authenticated", "permission_denied", "flat_query_required",
     "query_not_found", "unknown"}

\* the kinds the CLI process of a refresh ends with in Spec
ErrorTypes == {"not_authenticated", "query_not_found"}

ErrorMessage(type) ==
    CASE type = "cli_not_found" -> "Azure CLI (az) not found. Please install it and restart VS Code."
      [] type = "not_authenticated" ->
             "Not authenticated. Please run \"az login\" or \"az devops login\" in your terminal."
      [] type = "permission_denied" -> "Permission denied. Check your access to the Azure DevOps project."
      [] type = "flat_query_required" ->
             "Query must be a flat list query. Tree or one-hop queries are not supported."
      [] type = "query_not_found" -> "Query not found. Please check the query ID or path."
      [] OTHER -> "Unknown error occurred"

\* kind "array": exit code 0 and a JSON array on stdout; "null": exit code 0
\* and nothing on stdout; "object": exit code 0 and JSON that is no array;
\* "error": a non-zero exit code
CliOutcome(kind, data, errorType) == [kind |-> kind, data |-> data, errorType |-> errorType]

CliOutcomes ==
    {CliOutcome("array", d, UNSET) : d \in QueryResultLists}
        \cup {CliOutcome("null", <<>>, UNSET), CliOutcome("object", <<>>, UNSET)}
        \cup {CliOutcome("error", <<>>, e) : e \in ErrorTypes}

\* CliResult
Success(data) == [success |-> TRUE, data |-> data, errorType |-> UNSET, message |-> UNSET]

Failure(type, message) == [success |-> FALSE, data |-> <<>>, errorType |-> type, message |-> message]

NoResult == [success |-> FALSE, data |-> <<>>, errorType |-> UNSET, message |-> UNSET]

(***************************************************************************)
(* AdoClient: the cache                                                    *)
(***************************************************************************)
JsonMember(name, v) == IF v = UNSET THEN <<>> ELSE <<JsonString(name) \o ":" \o JsonString(v)>>

\* JSON.stringify leaves out the members that are undefined
getCacheKeyForQuery(queryDef) ==
    "{" \o Join(JsonMember("org", SettingsOrganization) \o JsonMember("project", SettingsProject)
                    \o JsonMember("queryId", queryDef.queryId)
                    \o JsonMember("queryPath", queryDef.queryPath)
                    \o JsonMember("name", queryDef.name), ",") \o "}"

CacheEntry(key, data, timestamp) == [key |-> key, data |-> data, timestamp |-> timestamp]

NoEntry == CacheEntry(UNSET, <<>>, 0)

\* Map.get
CacheGet(c, key) == IF \E e \in c : e.key = key THEN CHOOSE e \in c : e.key = key ELSE NoEntry

\* Map.set
CacheSet(c, key, data, timestamp) == {e \in c : e.key # key} \cup {CacheEntry(key, data, timestamp)}

\* the condition of the cache hit, as a strict and as an inclusive window
IsFresh_Inclusive(cached, at, ttlSeconds) ==
    cached # NoEntry /\ (at - cached.timestamp) <= ttlSeconds * 1000

IsFresh(cached, at, ttlSeconds) ==
    cached # NoEntry /\ (at - cached.timestamp) < ttlSeconds * 1000

HasTarget(queryDef) == queryDef.queryId # UNSET \/ queryDef.queryPath # UNSET

NoTargetMessage(queryDef) == "Query \"" \o queryDef.name \o "\" has no queryId or queryPath configured"

TooManyMessage == "Too many concurrent CLI processes"

\* limitedResults.map(item => ({id, fields: item.fields ?? {}, url}))
ToWorkItems(results) ==
    [i \in 1..Len(results) |->
        WorkItem(results[i].id, IF results[i].hasFields THEN results[i].fields ELSE NoFields)]

(***************************************************************************)
(* AdoTreeProvider                                                         *)
(***************************************************************************)
RECURSIVE ProviderCountWorkItems(_)
\* AdoTreeProvider.countWorkItems
ProviderCountWorkItems(nodes) ==
    IF Len(nodes) = 0 THEN 0
    ELSE (IF nodes[1].type = "workItem" THEN 1 ELSE ProviderCountWorkItems(nodes[1].children))
             + ProviderCountWorkItems(Tail(nodes))

\* QueryNode; fromCache, preForce and hash are history: the node was built
\* from a cache hit, a forceRefresh() ran after that hit, and the fingerprint
\* of the records and rules the node was built from
QueryNode(queryDef, count, children, error, fromCache) ==
    [type |-> "query", name |-> queryDef.name, queryId |-> queryDef.queryId,
     queryPath |-> queryDef.queryPath, count |-> count, children |-> children,
     error |-> error, fromCache |-> fromCache, preForce |-> FALSE, hash |-> UNSET]

\* queryDef.groupBy ?? Settings.groupBy
GroupByOf(queryDef, cfg) == IF queryDef.hasGroupBy THEN queryDef.groupBy ELSE SettingsGroupBy(cfg)

\* a node built from result.data whatever the result says
loadQueryNode_IgnoresFailure(queryDef, result, fromCache, cfg, day) ==
    LET groupBy == GroupByOf(queryDef, cfg)
        children == buildTree(result.data, groupBy, day)
    IN  QueryNode(queryDef, ProviderCountWorkItems(children), children, UNSET, fromCache)

\* loadQueryNode after getWorkItemsForQuery returned
loadQueryNode(queryDef, result, fromCache, cfg, day) ==
    IF ~result.success
    THEN QueryNode(queryDef, 0, <<>>,
                   IF result.message = UNSET THEN "Failed to load query" ELSE result.message,
                   fromCache)
    ELSE LET groupBy == GroupByOf(queryDef, cfg)
             children == buildTree(result.data, groupBy, day)
         IN  QueryNode(queryDef, ProviderCountWorkItems(children), children, UNSET, fromCache)

\* one invocation of refresh(): where it stands and its local variables,
\* those of the getWorkItemsForQuery call it is in included
Task(pc, queries, index, queryNodes) ==
    [pc |-> pc, queries |-> queries, index |-> index, queryNodes |-> queryNodes,
     cacheKey |-> UNSET, cached |-> NoEntry, now |-> 0, ttlSeconds |-> 0,
     executed |-> FALSE, result |-> NoResult]

IdleTask == Task("idle", <<>>, 0, <<>>)

Generations == 1..MaxGeneration

\* a refresh() invocation runs without an await in between: nothing else
\* runs until it awaits a CLI process or returns
Busy == \E g \in Generations : tasks[g].pc \in {"loop", "gotResult"}

TickMs == 30000

\* a cleanup() that leaves the counter as it is
cleanup_KeepsCount(n) == n

\* cleanup() of AzCliRunner.execute: this.concurrentProcesses--
cleanup(n) == n - 1

\* the state the constructors leave
Constructed(cfg) ==
    /\ settings = cfg
    /\ dateNow = 0
    /\ cache = {}
    /\ concurrentProcesses = 0
    /\ otherProcesses = 0
    /\ executions = <<>>
    /\ cachedQueries = <<>>
    /\ isLoading = FALSE
    /\ lastError = UNSET
    /\ currentGeneration = 0
    /\ refreshTimer = (cfg.refreshIntervalSeconds > 0)
    /\ tasks = [g \in Generations |-> IdleTask]
    /\ regrouped = {}
    /\ calls = {}

SettingsValues ==
    [queries : QueryLists, groupBy : GroupByLists, cacheTtlSeconds : CacheTtlChoices,
     refreshIntervalSeconds : RefreshIntervalChoices]

Init ==
    /\ workItems = <<>>
    /\ otherItems = <<>>
    /\ groupSpecs = <<>>
    /\ hashA = ""
    /\ hashB = ""
    /\ edits = 0
    /\ tree = <<>>
    /\ today = FirstDay
    /\ fieldKeys = <<>>
    /\ enginePc = "idle"
    /\ \E cfg \in SettingsValues : Constructed(cfg)

\* a loading guard that lets every request through
AlreadyLoading_Never == FALSE

\* the guard of refresh(): if (this.isLoading) return
AlreadyLoading == isLoading

\* refresh() up to its loop; cq and tk are this.cachedQueries and the
\* invocations when refresh() is entered, cfg the configuration it reads
refresh(cq, tk, cfg) ==
    IF AlreadyLoading
    THEN /\ cachedQueries' = cq
         /\ tasks' = tk
         /\ calls' = {}
         /\ UNCHANGED <<isLoading, lastError, currentGeneration>>
    ELSE LET generation == currentGeneration + 1
             queries == getActiveQueries(cfg)
         IN  /\ currentGeneration' = generation
             /\ calls' = {"fire"}
             /\ IF Len(queries) = 0
                THEN /\ cachedQueries' = <<>>
                     /\ tasks' = tk
                     /\ UNCHANGED <<isLoading, lastError>>
                ELSE /\ isLoading' = TRUE
                     /\ lastError' = UNSET
                     /\ cachedQueries' = cq
                     /\ tasks' = [tk EXCEPT ![generation] = Task("loop", queries, 1, <<>>)]

\* refresh() either returns at its loading guard or takes the next generation
CanRefresh == isLoading \/ currentGeneration < MaxGeneration

\* activate() has run
Activated == currentGeneration > 0

\* the nodes an invocation holds from cache hits pre-date a forceRefresh()
MarkNodes(nodes) == [i \in 1..Len(nodes) |-> [nodes[i] EXCEPT !.preForce = nodes[i].fromCache]]

MarkPreForce(tk) == [g \in Generations |-> [tk[g] EXCEPT !.queryNodes = MarkNodes(tk[g].queryNodes)]]

\* activate(): the initial refresh
Activate ==
    /\ ~Activated
    /\ refresh(cachedQueries, tasks, settings)
    /\ UNCHANGED <<engineVars, executions, settings, dateNow, clientVars, refreshTimer, regrouped>>

\* the setInterval callback of setupAutoRefresh
TimerRefresh ==
    /\ Activated
    /\ ~Busy
    /\ refreshTimer
    /\ CanRefresh
    /\ refresh(cachedQueries, tasks, settings)
    /\ UNCHANGED <<engineVars, executions, settings, dateNow, clientVars, refreshTimer, regrouped>>

\* forceRefresh(), run by the refresh commands
ForceRefresh ==
    /\ Activated
    /\ ~Busy
    /\ CanRefresh
    /\ cache' = {}
    /\ refresh(<<>>, MarkPreForce(tasks), settings)
    /\ regrouped' = {}
    /\ UNCHANGED <<engineVars, executions, settings, dateNow, concurrentProcesses, otherProcesses, refreshTimer>>

\* onDidChangeConfiguration: setupAutoRefresh() and forceRefresh()
ConfigChange(member, value) ==
    /\ Activated
    /\ ~Busy
    /\ CanRefresh
    /\ settings[member] # value
    /\ settings' = [settings EXCEPT ![member] = value]
    /\ refreshTimer' = (settings'.refreshIntervalSeconds > 0)
    /\ cache' = {}
    /\ refresh(<<>>, MarkPreForce(tasks), settings')
    /\ regrouped' = IF OnlyGroupingDiffers(settings, settings')
                    THEN {e.key : e \in {x \in cache : IsFresh(x, dateNow, settings.cacheTtlSeconds)}}
                    ELSE {}
    /\ UNCHANGED <<engineVars, executions, dateNow, concurrentProcesses, otherProcesses>>

\* time passes
Tick ==
    /\ ~Busy
    /\ dateNow < MaxClock * TickMs
    /\ dateNow' = dateNow + TickMs
    /\ regrouped' = {}
    /\ calls' = {}
    /\ UNCHANGED <<engineVars, executions, settings, clientVars, providerVars>>

\* AzCliRunner.execute for another command (fetchSingleWorkItem,
\* fetchQueryMetadata) spawns a process
OtherExecute ==
    /\ Activated
    /\ ~Busy
    /\ concurrentProcesses < maxConcurrent
    /\ concurrentProcesses' = concurrentProcesses + 1
    /\ otherProcesses' = otherProcesses + 1
    /\ calls' = {}
    /\ UNCHANGED <<engineVars, executions, settings, dateNow, cache, providerVars, regrouped>>

\* such a process ends: cleanup()
OtherClose ==
    /\ ~Busy
    /\ otherProcesses > 0
    /\ concurrentProcesses' = cleanup(concurrentProcesses)
    /\ otherProcesses' = otherProcesses - 1
    /\ calls' = {}
    /\ UNCHANGED <<engineVars, executions, settings, dateNow, cache, providerVars, regrouped>>

\* getWorkItemsForQuery up to its await, with execute up to its spawn
getWorkItemsForQuery(t) ==
    LET queryDef == t.queries[t.index]
        cacheKey == getCacheKeyForQuery(queryDef)
        cached == CacheGet(cache, cacheKey)
        call == [t EXCEPT !.cacheKey = cacheKey, !.cached = cached, !.now = dateNow,
                          !.ttlSeconds = settings.cacheTtlSeconds]
    IN  IF IsFresh(cached, dateNow, settings.cacheTtlSeconds)
        THEN [call EXCEPT !.pc = "gotResult", !.result = Success(cached.data)]
        ELSE IF ~HasTarget(queryDef)
        THEN [call EXCEPT !.pc = "gotResult", !.result = Failure("unknown", NoTargetMessage(queryDef))]
        ELSE IF concurrentProcesses >= maxConcurrent
        THEN [call EXCEPT !.pc = "gotResult", !.executed = TRUE,
                          !.result = Failure("unknown", TooManyMessage)]
        ELSE [call EXCEPT !.pc = "awaitCli", !.executed = TRUE]

\* a generation check that no refresh passes
IsCurrent_Never(generation) == FALSE

\* generation === this.currentGeneration
IsCurrent(generation) == generation = currentGeneration

\* a finally block that leaves isLoading as it is
FinallyLoading_Kept(generation, loading) == loading

\* this.isLoading after the finally block of refresh()
FinallyLoading(generation, loading) == IF IsCurrent(generation) THEN FALSE ELSE loading

\* refresh() at the top of its loop, and after it
LoopStep(g) ==
    LET t == tasks[g]
    IN  /\ t.pc = "loop"
        /\ IF ~IsCurrent(g)
           THEN /\ tasks' = [tasks EXCEPT ![g] = IdleTask]
                /\ calls' = {}
                /\ UNCHANGED <<cachedQueries, isLoading, concurrentProcesses>>
           ELSE IF t.index > Len(t.queries)
           THEN /\ cachedQueries' = t.queryNodes
                /\ isLoading' = FinallyLoading(g, isLoading)
                /\ calls' = {"fire"}
                /\ tasks' = [tasks EXCEPT ![g] = IdleTask]
                /\ UNCHANGED concurrentProcesses
           ELSE LET call == getWorkItemsForQuery(t)
                IN  /\ tasks' = [tasks EXCEPT ![g] = call]
                    /\ calls' = {}
                    /\ concurrentProcesses' =
                           IF call.pc = "awaitCli" THEN concurrentProcesses + 1 ELSE concurrentProcesses
                    /\ UNCHANGED <<cachedQueries, isLoading>>
        /\ UNCHANGED <<engineVars, executions, settings, dateNow, cache, otherProcesses, lastError,
                       currentGeneration, refreshTimer, regrouped>>

SliceError == "TypeError: queryResult.data.slice is not a function"

\* a getWorkItemsForQuery that stores whatever the CLI gave
CacheAfter_StoresAll(c, t, outcome) ==
    CacheSet(c, t.cacheKey, ToWorkItems(Take(outcome.data, maxItems)), t.now)

\* this.cache when getWorkItemsForQuery returns after its await: set only
\* for a result with records
CacheAfter(c, t, outcome) ==
    IF outcome.kind = "array" /\ Len(outcome.data) > 0
    THEN CacheSet(c, t.cacheKey, ToWorkItems(Take(outcome.data, maxItems)), t.now)
    ELSE c

\* the CLI process of a query ends: cleanup(), then getWorkItemsForQuery
\* after its await
CliClose(g, outcome) ==
    LET t == tasks[g]
    IN  /\ ~Busy
        /\ t.pc = "awaitCli"
        /\ concurrentProcesses' = cleanup(concurrentProcesses)
        /\ regrouped' = regrouped \ {t.cacheKey}
        /\ calls' = IF outcome.kind = "object" /\ IsCurrent(g) THEN {"fire"} ELSE {}
        /\ cache' = CacheAfter(cache, t, outcome)
        /\ CASE outcome.kind = "error" ->
                    /\ tasks' = [tasks EXCEPT ![g].pc = "gotResult",
                                              ![g].result = Failure(outcome.errorType, ErrorMessage(outcome.errorType))]
                    /\ UNCHANGED <<isLoading, lastError>>
             [] outcome.kind = "null" \/ (outcome.kind = "array" /\ Len(outcome.data) = 0) ->
                    /\ tasks' = [tasks EXCEPT ![g].pc = "gotResult", ![g].result = Success(<<>>)]
                    /\ UNCHANGED <<isLoading, lastError>>
             [] outcome.kind = "object" ->
                    \* slice throws; refresh() catches
                    /\ tasks' = [tasks EXCEPT ![g] = IdleTask]
                    /\ lastError' = IF IsCurrent(g) THEN SliceError ELSE lastError
                    /\ isLoading' = FinallyLoading(g, isLoading)
             [] OTHER ->
                    LET data == ToWorkItems(Take(outcome.data, maxItems))
                    IN  /\ tasks' = [tasks EXCEPT ![g].pc = "gotResult", ![g].result = Success(data)]
                        /\ UNCHANGED <<isLoading, lastError>>
        /\ UNCHANGED <<engineVars, executions, settings, dateNow, otherProcesses, cachedQueries,
                       currentGeneration, refreshTimer>>

\* loadQueryNode after its await, and the push of the node
BuildNode(g) ==
    LET t == tasks[g]
        queryDef == t.queries[t.index]
        built == loadQueryNode(queryDef, t.result, t.result.success /\ ~t.executed, settings, today)
        node == [built EXCEPT !.hash = IF t.result.success
                                       THEN computeHash(t.result.data, GroupByOf(queryDef, settings))
                                       ELSE UNSET]
    IN  /\ t.pc = "gotResult"
        /\ tasks' = [tasks EXCEPT ![g] = Task("loop", t.queries, t.index + 1, Append(t.queryNodes, node))]
        /\ calls' = IF t.result.success THEN {"buildTree"} ELSE {}
        /\ UNCHANGED <<engineVars, executions, settings, dateNow, clientVars, cachedQueries, isLoading,
                       lastError, currentGeneration, refreshTimer, regrouped>>

Next ==
    \/ Activate
    \/ TimerRefresh
    \/ ForceRefresh
    \/ \E member \in SettingsMembers : \E value \in SettingsChoices(member) : ConfigChange(member, value)
    \/ Tick
    \/ OtherExecute
    \/ OtherClose
    \/ \E g \in Generations : LoopStep(g)
    \/ \E g \in Generations : \E outcome \in CliOutcomes : CliClose(g, outcome)
    \/ \E g \in Generations : BuildNode(g)

Spec == Init /\ [][Next]_vars

\* the getWorkItemsForQuery calls that await their CLI process or have just
\* returned to loadQueryNode
CallsMade == {t \in {tasks[g] : g \in Generations} : t.pc \in {"awaitCli", "gotResult"}}

\* the entry the call found is within the freshness window
WithinWindow(t) == t.cached # NoEntry /\ (t.now - t.cached.timestamp) < t.ttlSeconds * 1000

\* C4, as stated: a call that finds an entry with (now - entry.timestamp) <
\* cacheTtlSeconds * 1000 calls no CLI and returns exactly entry.data; a call
\* that finds no entry, or one whose age is >= the TTL, issues a remote query.
C4_FreshnessWindow_AsStated ==
    \A t \in CallsMade :
        /\ WithinWindow(t) => (~t.executed /\ t.pc = "gotResult" /\ t.result = Success(t.cached.data))
        /\ ~WithinWindow(t) => t.executed

\* C4, amended: as above, and the call outside the window issues the remote
\* query when the query definition has a queryId or a queryPath; with neither
\* it returns a failure without a CLI call.
C4_FreshnessWindow ==
    \A t \in CallsMade :
        /\ WithinWindow(t) => (~t.executed /\ t.pc = "gotResult" /\ t.result = Success(t.cached.data))
        /\ (~WithinWindow(t) /\ HasTarget(t.queries[t.index])) => t.executed
        /\ (~WithinWindow(t) /\ ~HasTarget(t.queries[t.index])) =>
               (~t.executed /\ t.pc = "gotResult" /\ ~t.result.success)

\* C4 witness: a call answered from an entry that holds records, inside the
\* window of a positive TTL.
C4_Witness ==
    \E t \in CallsMade :
        /\ t.pc = "gotResult"
        /\ WithinWindow(t)
        /\ ~t.executed
        /\ Len(t.cached.data) > 0
        /\ t.result = Success(t.cached.data)

\* C5, as stated: after forceRefresh(), in any interleaving, the cache holds
\* no entry created before the call and the query results committed next hold
\* no data served from a cache entry that existed before the call.
C5_ForceRefreshBypassesCache ==
    \A i \in 1..Len(cachedQueries) : ~cachedQueries[i].preForce

\* a refresh() invocation awaits a CLI process
InFlight == \E g \in Generations : tasks[g].pc = "awaitCli"

\* C6, as stated: a refresh requested while an earlier one still awaits its
\* queries is started: it takes the next generation, which supersedes the
\* earlier one.
C6_NewerRefreshSupersedes ==
    [][(InFlight /\ (ForceRefresh
                       \/ \E member \in SettingsMembers :
                              \E value \in SettingsChoices(member) : ConfigChange(member, value)))
          => currentGeneration' = currentGeneration + 1]_vars

\* C7, as stated: when the remote query of a getWorkItemsForQuery call
\* succeeds, with any number of records, the cache holds on return an entry
\* under the query's key with the records just fetched and the timestamp
\* taken for the call.
C7_EverySuccessfulFetchCached ==
    \A t \in CallsMade :
        (t.pc = "gotResult" /\ t.executed /\ t.result.success) =>
            CacheGet(cache, t.cacheKey) = CacheEntry(t.cacheKey, t.result.data, t.now)

\* C8, as stated: when only the grouping rules change while the cache entry of
\* a query is within its window, showing the query under the new grouping
\* issues no remote fetch for it.
C8_RegroupingReusesCache ==
    \A t \in CallsMade : t.executed => t.cacheKey \notin regrouped

(***************************************************************************)
(* SpecHash: computeHash applied to a record list and to a second list     *)
(* obtained from it by reordering the records or by updating fields.       *)
(***************************************************************************)
HashIds == {1, 2, 10}

HashInitStates == {Null, Str("2")}

HashFieldChoices == {FState, FAssignedTo}

HashValues == {Undefined, Null, Str(""), Str("2"), Num(2), Alice, Bob}

HashRuleLists ==
    {<<>>} \cup {<<FieldRule(f)>> : f \in HashFieldChoices}
           \cup {<<FieldRule(f), FieldRule(g)>> : <<f, g>> \in {<<FState, FAssignedTo>>, <<FAssignedTo, FState>>}}

\* the sequences of length n over S without repetition
InjectiveSeqs(S, n) == {q \in [1..n -> S] : \A i, j \in 1..n : i # j => q[i] # q[j]}

HashRecordLists ==
    UNION {{[i \in 1..n |-> WorkItem(ids[i], [NoFields EXCEPT ![FState] = st[i]])] :
                ids \in InjectiveSeqs(HashIds, n), st \in [1..n -> HashInitStates]} : n \in 0..MaxItems}

HashInit ==
    /\ workItems \in HashRecordLists
    /\ otherItems = workItems
    /\ groupSpecs \in HashRuleLists
    /\ hashA = ""
    /\ hashB = ""
    /\ edits = 0
    /\ tree = <<>>
    /\ today = FirstDay
    /\ fieldKeys = <<>>
    /\ enginePc = "input"
    /\ Constructed(DefaultSettings)

SameIdsInOrder(a, b) == Len(a) = Len(b) /\ \A i \in 1..Len(a) : a[i].id = b[i].id

\* the caller hands over the same records in another order
Shuffle(i) ==
    /\ enginePc = "input"
    /\ edits = 0
    /\ i \in 1..(Len(otherItems) - 1)
    /\ otherItems' = [otherItems EXCEPT ![i] = otherItems[i + 1], ![i + 1] = otherItems[i]]
    /\ UNCHANGED <<workItems, groupSpecs, hashA, hashB, edits, tree, today, fieldKeys, enginePc, programVars>>

\* the remote side changes one field of one record
UpdateField(i, f, v) ==
    /\ enginePc = "input"
    /\ edits < MaxEdits
    /\ SameIdsInOrder(workItems, otherItems)
    /\ i \in 1..Len(otherItems)
    /\ otherItems[i].fields[f] # v
    /\ otherItems' = [otherItems EXCEPT ![i].fields[f] = v]
    /\ edits' = edits + 1
    /\ UNCHANGED <<workItems, groupSpecs, hashA, hashB, tree, today, fieldKeys, enginePc, programVars>>

ComputeHash ==
    /\ enginePc = "input"
    /\ hashA' = computeHash(workItems, groupSpecs)
    /\ hashB' = computeHash(otherItems, groupSpecs)
    /\ enginePc' = "hashed"
    /\ UNCHANGED <<workItems, otherItems, groupSpecs, edits, tree, today, fieldKeys, programVars>>

HashNext ==
    \/ \E i \in 1..MaxItems : Shuffle(i)
    \/ \E i \in 1..MaxItems, f \in HashFieldChoices, v \in HashValues : UpdateField(i, f, v)
    \/ ComputeHash

SpecHash == HashInit /\ [][HashNext]_vars

\* b holds the records of a in some order (ids are unique)
IsPermutation(a, b) ==
    /\ Len(a) = Len(b)
    /\ \A i \in 1..Len(a) : \E j \in 1..Len(b) : a[i] = b[j]

TrackedFields == {groupSpecs[k].field : k \in 1..Len(groupSpecs)}

AgreeOn(F) ==
    /\ SameIdsInOrder(workItems, otherItems)
    /\ \A i \in 1..Len(workItems) : \A f \in F : workItems[i].fields[f] = otherItems[i].fields[f]

\* C1: computeHash gives the same fingerprint for every reordering of the
\* same records under the same rules.
C1_HashOrderInvariant ==
    (enginePc = "hashed" /\ IsPermutation(workItems, otherItems)) => hashA = hashB

\* C2: two lists with the same ids in the same order that differ in the raw
\* value of a field named by a rule get different fingerprints.
C2_TrackedChangeChangesHash ==
    (enginePc = "hashed" /\ SameIdsInOrder(workItems, otherItems) /\ ~AgreeOn(TrackedFields))
        => hashA # hashB

\* C3: two lists with the same ids in the same order that agree on every
\* field named by a rule get the same fingerprint, whatever the other fields hold.
C3_UntrackedIgnored ==
    (enginePc = "hashed" /\ AgreeOn(TrackedFields)) => hashA = hashB

\* C3 witness: a fingerprint pair computed for lists that agree on a tracked
\* field and differ on an untracked one.
C3_Witness ==
    /\ enginePc = "hashed"
    /\ Len(groupSpecs) > 0
    /\ AgreeOn(TrackedFields)
    /\ ~AgreeOn(FieldNames)

(***************************************************************************)
(* SpecTree: buildTree applied to a record list and a rule list            *)
(***************************************************************************)
TreeIds == 1..MaxTreeItems

\* the (state, priority) pairs a record of the tree inputs carries
TreeRecordKinds ==
    {<<Str("Active"), Num(1)>>, <<Str("Active"), Num(2)>>, <<Str("Closed"), Num(1)>>, <<Undefined, Undefined>>}

TreeRecord(id, kind) ==
    WorkItem(id, [NoFields EXCEPT ![FState] = kind[1], ![FPriority] = kind[2]])

TreeRecordLists ==
    UNION {{[i \in 1..n |-> TreeRecord(ids[i], kinds[i])] :
                ids \in InjectiveSeqs(TreeIds, n), kinds \in [1..n -> TreeRecordKinds]} : n \in 0..MaxTreeItems}

\* a groupBy of six entries
SixRules ==
    <<StateRule, PriorityRule, FieldRule(FAssignedTo), FieldRule(FDueDate), FieldRule(FTitle),
      FieldRule(FWorkItemType)>>

\* a groupBy of as many entries as the setting keeps
FiveRules == Take(SixRules, MaxGroupLevels)

TreeRuleLists ==
    {<<>>, <<StateRule>>, <<PriorityRule>>, <<StateRule, PriorityRule>>, <<PriorityRule, StateRule>>,
     FiveRules, SixRules}

TreeInit ==
    /\ workItems \in TreeRecordLists
    /\ otherItems = <<>>
    /\ groupSpecs \in TreeRuleLists
    /\ hashA = ""
    /\ hashB = ""
    /\ edits = 0
    /\ tree = <<>>
    /\ today = FirstDay
    /\ fieldKeys = <<>>
    /\ enginePc = "input"
    /\ Constructed(DefaultSettings)

BuildTree ==
    /\ enginePc = "input"
    /\ tree' = buildTree(workItems, groupSpecs, today)
    /\ enginePc' = "built"
    /\ UNCHANGED <<workItems, otherItems, groupSpecs, hashA, hashB, edits, today, fieldKeys, programVars>>

\* loadQueryNode for a query whose records are workItems; the rule list is the
\* query's own groupBy (own) or the adoQueries.groupBy setting
RenderQuery(own) ==
    LET queryDef == QueryDefinition("Bugs", "q-1", UNSET, own, IF own THEN groupSpecs ELSE <<>>)
        cfg == [DefaultSettings EXCEPT !.groupBy = IF own THEN <<StateRule>> ELSE groupSpecs]
    IN  /\ enginePc = "input"
        /\ tree' = loadQueryNode(queryDef, Success(workItems), FALSE, cfg, today).children
        /\ enginePc' = IF own THEN "renderedOwn" ELSE "renderedGlobal"
        /\ UNCHANGED <<workItems, otherItems, groupSpecs, hashA, hashB, edits, today, fieldKeys, programVars>>

\* loadQueryNode for a query whose getWorkItemsForQuery call returned a
\* failure of a classified kind
RenderFailure(type) ==
    LET cfg == [DefaultSettings EXCEPT !.groupBy = groupSpecs]
    IN  /\ enginePc = "input"
        /\ tree' = <<loadQueryNode(QBugs, Failure(type, ErrorMessage(type)), FALSE, cfg, today)>>
        /\ enginePc' = "renderedFailure"
        /\ UNCHANGED <<workItems, otherItems, groupSpecs, hashA, hashB, edits, today, fieldKeys, programVars>>

TreeNext ==
    \/ BuildTree
    \/ \E own \in BOOLEAN : RenderQuery(own)
    \/ \E type \in ClassifiedTypes : RenderFailure(type)

SpecTree == TreeInit /\ [][TreeNext]_vars

\* the number of work-item leaves below a node list
RECURSIVE LeafCount(_)
LeafCount(nodes) ==
    IF Len(nodes) = 0 THEN 0
    ELSE (IF nodes[1].type = "workItem" THEN 1 ELSE LeafCount(nodes[1].children)) + LeafCount(Tail(nodes))

\* every group node of a node list, at any depth
RECURSIVE GroupNodesOf(_)
GroupNodesOf(nodes) ==
    IF Len(nodes) = 0 THEN {}
    ELSE (IF nodes[1].type = "group" THEN {nodes[1]} \cup GroupNodesOf(nodes[1].children) ELSE {})
            \cup GroupNodesOf(Tail(nodes))

RECURSIVE SumOfCounts(_)
SumOfCounts(nodes) ==
    IF Len(nodes) = 0 THEN 0 ELSE nodes[1].count + SumOfCounts(Tail(nodes))

\* C9: with a non-empty rule list every group's count is the number of leaves
\* below it, and the counts of the top-level nodes add up to records.length.
C9_CountsRollUp ==
    (enginePc = "built" /\ Len(groupSpecs) > 0) =>
        /\ \A g \in GroupNodesOf(tree) : g.count = LeafCount(g.children)
        /\ \A i \in 1..Len(tree) : tree[i].type = "group"
        /\ SumOfCounts(tree) = Len(workItems)

\* C9 witness: a two-level tree with a top-level group of several leaves that
\* has fewer children than leaves.
C9_Witness ==
    /\ enginePc = "built"
    /\ Len(groupSpecs) = 2
    /\ Len(tree) >= 2
    /\ \E i \in 1..Len(tree) : tree[i].count >= 2 /\ Len(tree[i].children) < tree[i].count

\* C10: with no rules the tree is one leaf per record and nothing else, in
\* ascending priority and, for equal priorities, ascending id.
C10_FlatSorted ==
    (enginePc = "built" /\ Len(groupSpecs) = 0) =>
        /\ Len(tree) = Len(workItems)
        /\ \A i \in 1..Len(tree) : tree[i].type = "workItem"
        /\ \A k \in 1..Len(workItems) :
              Cardinality({i \in 1..Len(tree) : tree[i].id = workItems[k].id}) = 1
        /\ \A i, j \in 1..Len(tree) :
              i < j =>
                /\ (~Nullish(tree[i].priority) /\ ~Nullish(tree[j].priority))
                      => tree[i].priority.n <= tree[j].priority.n
                /\ tree[i].priority = tree[j].priority => tree[i].id < tree[j].id

\* C10 witness: a flat build of three records whose first two have the same
\* priority and arrive in descending id order.
C10_Witness ==
    /\ enginePc = "built"
    /\ Len(groupSpecs) = 0
    /\ Len(workItems) = 3
    /\ workItems[1].fields[FPriority] = workItems[2].fields[FPriority]
    /\ workItems[1].id > workItems[2].id
    /\ workItems[3].fields[FPriority] = Num(1)
    /\ workItems[1].fields[FPriority] = Num(2)

\* C11: every group node of a built tree has at least one child, and a build
\* from no records gives the empty sequence under every rule list.
C11_NoEmptyPartitions ==
    enginePc = "built" =>
        /\ \A g \in GroupNodesOf(tree) : Len(g.children) >= 1
        /\ Len(workItems) = 0 => tree = <<>>

\* C11 witness: a two-level tree of three records in which some group holds
\* a single record.
C11_Witness ==
    /\ enginePc = "built"
    /\ Len(groupSpecs) = 2
    /\ Len(workItems) = 3
    /\ Len(tree) >= 2
    /\ \E g \in GroupNodesOf(tree) : g.count = 1 /\ Len(g.children) = 1

\* the number of nested group levels above the deepest leaf of a node list
RECURSIVE Depth(_)
Depth(nodes) ==
    IF Len(nodes) = 0 THEN 0
    ELSE LET first == IF nodes[1].type = "group" THEN 1 + Depth(nodes[1].children) ELSE 0
             rest == Depth(Tail(nodes))
         IN  IF first > rest THEN first ELSE rest

\* C12, as stated: a query rendered with a rule list of more than 5 entries,
\* from the global groupBy setting or from the query's own groupBy, has every
\* leaf under at most 5 nested group levels.
C12_DepthCappedAtFive ==
    enginePc \in {"renderedOwn", "renderedGlobal"} => Depth(tree) <= MaxGroupLevels

\* the sibling lists of a built tree: its top level and the children of
\* every group
SiblingLists == {tree} \cup {g.children : g \in GroupNodesOf(tree)}

\* C13: under a rule that is no date-bucket rule, the group whose key is the
\* rule's missing label is the last of its siblings, whatever the other keys.
C13_MissingLabelLast ==
    enginePc = "built" =>
        \A siblings \in SiblingLists : \A i \in 1..Len(siblings) :
            (/\ siblings[i].type = "group"
             /\ groupSpecs[siblings[i].level + 1].bucket # "date"
             /\ siblings[i].key = MissingLabelOf(groupSpecs[siblings[i].level + 1]))
                => i = Len(siblings)

\* C13 witness: three sibling groups of which the one of the missing label was
\* created first and stands last.
C13_Witness ==
    /\ enginePc = "built"
    /\ Len(groupSpecs) >= 1
    /\ Len(tree) = 3
    /\ Nullish(FieldOf(workItems[1], groupSpecs[1].field))
    /\ tree[3].key = MissingLabelOf(groupSpecs[1])

(***************************************************************************)
(* SpecField: getFieldValue applied to one record under one rule, again    *)
(* and again while the days pass.                                          *)
(***************************************************************************)
NullAttr == [t |-> "null", s |-> "", n |-> 0]

\* the values the field of the record may carry
FieldValues ==
    {Undefined, Null, Str(""), Str("Active"), Str("2"), Str("not a date"), Num(2),
     Alice, Bob,
     Identity(StrAttr("Bob"), NoAttr), Identity(NoAttr, StrAttr("bob@x.com")),
     Identity(StrAttr(""), StrAttr("bob@x.com")), Identity(StrAttr("Bob"), StrAttr("")),
     Identity(NullAttr, StrAttr("bob@x.com")), Identity(NoAttr, NoAttr),
     Str("2020-01-01T00:00:00Z"), Str("2026-11-04T09:30:00"), Str("2026-11-05T23:59:00"),
     Str("2026-11-06T00:00:00"), Str("2026-11-07T18:00:00"), Str("2026-11-11T08:00:00"),
     Str("2026-11-12T00:00:00"), Str("2026-11-13T00:00:00"), Str("2099-12-31T00:00:00Z")}

FieldRules ==
    {FieldRule(FAssignedTo),
     GroupSpec(FAssignedTo, UNSET, "(unassigned)", UNSET),
     GroupSpec(FAssignedTo, "uniqueName", UNSET, UNSET),
     GroupSpec(FAssignedTo, "uniqueName", "(unassigned)", UNSET),
     GroupSpec(FAssignedTo, "id", UNSET, UNSET),
     GroupSpec(FDueDate, UNSET, UNSET, "date"),
     GroupSpec(FDueDate, UNSET, "(no date)", "date")}

FieldInit ==
    /\ \E rule \in FieldRules : \E value \in FieldValues :
           /\ groupSpecs = <<rule>>
           /\ workItems = <<WorkItem(1, [NoFields EXCEPT ![rule.field] = value])>>
    /\ otherItems = <<>>
    /\ hashA = ""
    /\ hashB = ""
    /\ edits = 0
    /\ tree = <<>>
    /\ today = FirstDay
    /\ fieldKeys = <<>>
    /\ enginePc = "input"
    /\ Constructed(DefaultSettings)

\* one invocation of getFieldValue; the day of the invocation is kept with
\* the key it returned
GetFieldValue ==
    /\ Len(fieldKeys) < MaxCalls
    /\ fieldKeys' = Append(fieldKeys, [key |-> getFieldValue(workItems[1], groupSpecs[1], today),
                                       day |-> today])
    /\ UNCHANGED <<workItems, otherItems, groupSpecs, hashA, hashB, edits, tree, today, enginePc, programVars>>

\* midnight passes: new Date() falls on the next calendar day
NextDay ==
    /\ today < FirstDay + MaxDays
    /\ today' = today + 1
    /\ UNCHANGED <<workItems, otherItems, groupSpecs, hashA, hashB, edits, tree, fieldKeys, enginePc, programVars>>

FieldNext ==
    \/ GetFieldValue
    \/ NextDay

SpecField == FieldInit /\ [][FieldNext]_vars

\* the record's value for the field of the rule
FieldValue == workItems[1].fields[groupSpecs[1].field]

FieldIsMissing == FieldValue.t \in {"null", "undefined"} \/ FieldValue = Str("")

\* C14: under a date-bucket rule a date string whose local calendar day is d,
\* bucketed on the local calendar day t, gives overdue iff d < t, today iff
\* d = t, thisWeek iff t < d < t + 7 and future iff d >= t + 7; a string that
\* is no date, and a number, give none.
C14_DateBuckets ==
    \A i \in 1..Len(fieldKeys) :
        LET k == fieldKeys[i].key
            t == fieldKeys[i].day
            d == ParseLocalDay(FieldValue.s)
        IN  /\ (groupSpecs[1].bucket = "date" /\ FieldValue.t = "string" /\ FieldValue.s # "") =>
                   IF d.nan THEN k = "none"
                   ELSE /\ k \in {"overdue", "today", "thisWeek", "future"}
                        /\ k = "overdue" <=> d.v < t
                        /\ k = "today" <=> d.v = t
                        /\ k = "thisWeek" <=> (t < d.v /\ d.v < t + 7)
                        /\ k = "future" <=> d.v >= t + 7
            /\ (groupSpecs[1].bucket = "date" /\ FieldValue.t = "number") => k = "none"

\* C14 witness: a date seven days after the first invocation, bucketed as
\* future that day and as thisWeek the day after.
C14_Witness ==
    /\ Len(fieldKeys) = 2
    /\ groupSpecs[1].bucket = "date"
    /\ fieldKeys[1].key = "future"
    /\ fieldKeys[2].key = "thisWeek"
    /\ fieldKeys[2].day = fieldKeys[1].day + 1

\* C15: when the record's value for the field is null, undefined or the
\* empty string, getFieldValue returns the rule's missingLabel, or "(none)"
\* when the rule sets none, under every kind of rule, date-bucket rules
\* included.
C15_MissingGivesLabel ==
    \A i \in 1..Len(fieldKeys) :
        FieldIsMissing =>
            fieldKeys[i].key = IF groupSpecs[1].missingLabel = UNSET THEN "(none)"
                                ELSE groupSpecs[1].missingLabel

\* C15 witness: a null value under a date-bucket rule that sets a label.
C15_Witness ==
    /\ Len(fieldKeys) >= 1
    /\ FieldValue = Null
    /\ groupSpecs[1].bucket = "date"
    /\ groupSpecs[1].missingLabel = "(no date)"
    /\ fieldKeys[1].key = "(no date)"

\* the attribute of the identity the rule projects, displayName by default
ProjectedAttr ==
    LET name == IF groupSpecs[1].projection = UNSET THEN "displayName" ELSE groupSpecs[1].projection
    IN  IF name = "displayName" THEN FieldValue.displayName
        ELSE IF name = "uniqueName" THEN FieldValue.uniqueName
        ELSE NoAttr

\* C16: for an object value with a displayName or a uniqueName attribute,
\* getFieldValue returns the attribute named by rule.projection (default
\* displayName) when it is a non-empty string, else displayName when that is
\* a non-empty string, else the JSON text of the object; so Alice gives
\* "Alice" without projection and "alice@x.com" with projection uniqueName.
C16_IdentityExtraction ==
    \A i \in 1..Len(fieldKeys) :
        LET k == fieldKeys[i].key
        IN  /\ (FieldValue.t = "object"
                  /\ (FieldValue.displayName.t # "undefined" \/ FieldValue.uniqueName.t # "undefined")) =>
                   k = IF ProjectedAttr.t = "string" /\ ProjectedAttr.s # "" THEN ProjectedAttr.s
                       ELSE IF FieldValue.displayName.t = "string" /\ FieldValue.displayName.s # ""
                       THEN FieldValue.displayName.s
                       ELSE JsonObject(FieldValue)
            /\ (FieldValue = Alice /\ groupSpecs[1].projection = UNSET) => k = "Alice"
            /\ (FieldValue = Alice /\ groupSpecs[1].projection = "uniqueName") => k = "alice@x.com"

\* C16 witness: an identity whose projected uniqueName is the empty string,
\* so that the displayName is returned instead.
C16_Witness ==
    /\ Len(fieldKeys) >= 1
    /\ groupSpecs[1].projection = "uniqueName"
    /\ FieldValue = Identity(StrAttr("Bob"), StrAttr(""))
    /\ fieldKeys[1].key = "Bob"

\* C17, as stated: for a fixed record and rule of any kind, date-bucket
\* rules included, every invocation of getFieldValue returns the same key.
C17_SameKeyAlways ==
    \A i, j \in 1..Len(fieldKeys) : fieldKeys[i].key = fieldKeys[j].key

\* C17, amended: for a fixed record and rule every invocation returns the
\* same key when the rule is no date-bucket rule; under a date-bucket rule
\* the invocations made on the same local calendar day return the same key.
C17_SameKeyPerDay ==
    \A i, j \in 1..Len(fieldKeys) :
        (groupSpecs[1].bucket # "date" \/ fieldKeys[i].day = fieldKeys[j].day)
            => fieldKeys[i].key = fieldKeys[j].key

\* C17 witness: a date string under a rule that is no date-bucket rule, read
\* on two different days.
C17_Witness ==
    /\ Len(fieldKeys) = 2
    /\ groupSpecs[1].bucket # "date"
    /\ FieldValue = Str("2026-11-06T00:00:00")
    /\ fieldKeys[1].day # fieldKeys[2].day
    /\ fieldKeys[1].key = "2026-11-06T00:00:00"

Execution(started, resolved, proc, timer, result) ==
    [started |-> started, resolved |-> resolved, proc |-> proc, timer |-> timer, result |-> result]

\* the codes a failed spawn reports through the 'error' event
SpawnErrorCodes == {"ENOENT", "EAGAIN"}

\* what a 'close' event carries: the exit code and what stdout and stderr held
CloseOutcomes ==
    {[exitCode |-> 0, json |-> TRUE, errorType |-> UNSET],
     [exitCode |-> 0, json |-> FALSE, errorType |-> UNSET]}
        \cup {[exitCode |-> 1, json |-> FALSE, errorType |-> e] : e \in ClassifiedTypes \ {"cli_not_found"}}

RunnerInit ==
    /\ workItems = <<>>
    /\ otherItems = <<>>
    /\ groupSpecs = <<>>
    /\ hashA = ""
    /\ hashB = ""
    /\ edits = 0
    /\ tree = <<>>
    /\ today = FirstDay
    /\ fieldKeys = <<>>
    /\ enginePc = "input"
    /\ Constructed(DefaultSettings)

\* execute(args, options): the limit check, then the Promise executor up to
\* the end of its try block; thrown is spawn throwing, spawnOk is spawn
\* starting the process
RunnerExecute(timeout, thrown, spawnOk) ==
    /\ Len(executions) < MaxExecutions
    /\ IF concurrentProcesses >= maxConcurrent
       THEN /\ executions' = Append(executions,
                                    Execution(FALSE, TRUE, "none", "none", Failure("unknown", TooManyMessage)))
            /\ UNCHANGED concurrentProcesses
       ELSE IF thrown
       THEN \* concurrentProcesses++, then cleanup() in the catch block
            /\ executions' = Append(executions,
                                    Execution(TRUE, TRUE, "none", "none", Failure("unknown", "Error: spawn")))
            /\ concurrentProcesses' = cleanup(concurrentProcesses + 1)
       ELSE /\ executions' = Append(executions,
                                    Execution(TRUE, FALSE, IF spawnOk THEN "running" ELSE "spawnFailed",
                                              IF timeout THEN "armed" ELSE "none", NoResult))
            /\ concurrentProcesses' = concurrentProcesses + 1
    /\ UNCHANGED <<engineVars, settings, dateNow, cache, otherProcesses, providerVars, regrouped, calls>>

\* proc.on('error')
ProcError(i, code) ==
    LET e == executions[i]
    IN  /\ e.proc = "spawnFailed"
        /\ IF e.resolved
           THEN /\ executions' = [executions EXCEPT ![i].proc = "failed"]
                /\ UNCHANGED concurrentProcesses
           ELSE /\ concurrentProcesses' = cleanup(concurrentProcesses)
                /\ executions' =
                       [executions EXCEPT
                           ![i] = Execution(TRUE, TRUE, "failed", e.timer,
                                            IF code = "ENOENT"
                                            THEN Failure("cli_not_found", ErrorMessage("cli_not_found"))
                                            ELSE Failure("unknown", "spawn /bin/sh " \o code))]
        /\ UNCHANGED <<engineVars, settings, dateNow, cache, otherProcesses, providerVars, regrouped, calls>>

\* proc.on('close')
ProcClose(i, outcome) ==
    LET e == executions[i]
    IN  /\ e.proc \in {"running", "killed", "failed"}
        /\ IF e.resolved
           THEN /\ executions' = [executions EXCEPT ![i].proc = "closed"]
                /\ UNCHANGED concurrentProcesses
           ELSE /\ concurrentProcesses' = cleanup(concurrentProcesses)
                /\ executions' =
                       [executions EXCEPT
                           ![i] = Execution(TRUE, TRUE, "closed", e.timer,
                                            IF outcome.exitCode = 0
                                            THEN IF outcome.json
                                                 THEN Success(<<>>)
                                                 ELSE Failure("unknown", "Failed to parse JSON output: SyntaxError")
                                            ELSE Failure(outcome.errorType, ErrorMessage(outcome.errorType)))]
        /\ UNCHANGED <<engineVars, settings, dateNow, cache, otherProcesses, providerVars, regrouped, calls>>

\* the setTimeout callback of options.timeout
TimeoutFires(i) ==
    LET e == executions[i]
    IN  /\ e.timer = "armed"
        /\ IF e.resolved
           THEN /\ executions' = [executions EXCEPT ![i].timer = "fired"]
                /\ UNCHANGED concurrentProcesses
           ELSE /\ concurrentProcesses' = cleanup(concurrentProcesses)
                /\ executions' =
                       [executions EXCEPT
                           ![i] = Execution(TRUE, TRUE, IF e.proc = "running" THEN "killed" ELSE e.proc,
                                            "fired", Failure("unknown", "Command timed out"))]
        /\ UNCHANGED <<engineVars, settings, dateNow, cache, otherProcesses, providerVars, regrouped, calls>>

RunnerNext ==
    \/ \E timeout \in BOOLEAN, thrown \in BOOLEAN, spawnOk \in BOOLEAN : RunnerExecute(timeout, thrown, spawnOk)
    \/ \E i \in 1..Len(executions), code \in SpawnErrorCodes : ProcError(i, code)
    \/ \E i \in 1..Len(executions), outcome \in CloseOutcomes : ProcClose(i, outcome)
    \/ \E i \in 1..Len(executions) : TimeoutFires(i)

SpecRunner == RunnerInit /\ [][RunnerNext]_vars

\* the executions whose process exists and has not closed
RunningProcesses == {i \in 1..Len(executions) : executions[i].proc \in {"running", "killed"}}

\* the executions that got past the limit check and whose promise is pending
Unresolved == {i \in 1..Len(executions) : executions[i].started /\ ~executions[i].resolved}

\* an execute call that returned the failure of the limit check
Rejected(timeout, thrown, spawnOk) ==
    /\ RunnerExecute(timeout, thrown, spawnOk)
    /\ executions'[Len(executions')] = Execution(FALSE, TRUE, "none", "none", Failure("unknown", TooManyMessage))
    /\ concurrentProcesses' = concurrentProcesses

\* C19: at most 2 CLI processes run at a time; concurrentProcesses is the
\* number of executions that were started and have not resolved and lies in
\* 0..2; an execute call made while 2 processes run is rejected with a
\* failure, spawns nothing and leaves the counter alone.
C19_AtMostTwoProcesses ==
    /\ [](/\ Cardinality(RunningProcesses) <= maxConcurrent
          /\ concurrentProcesses = Cardinality(Unresolved)
          /\ concurrentProcesses \in 0..maxConcurrent)
    /\ [][\A timeout \in BOOLEAN, thrown \in BOOLEAN, spawnOk \in BOOLEAN :
              (RunnerExecute(timeout, thrown, spawnOk) /\ Cardinality(RunningProcesses) = maxConcurrent)
                  => Rejected(timeout, thrown, spawnOk)]_vars

\* what the counter does guarantee: it counts the pending executions, stays in
\* 0..2, and a call made at 2 is rejected
CounterCountsUnresolved ==
    /\ [](/\ concurrentProcesses = Cardinality(Unresolved)
          /\ concurrentProcesses \in 0..maxConcurrent)
    /\ [][\A timeout \in BOOLEAN, thrown \in BOOLEAN, spawnOk \in BOOLEAN :
              (RunnerExecute(timeout, thrown, spawnOk) /\ concurrentProcesses = maxConcurrent)
                  => Rejected(timeout, thrown, spawnOk)]_vars

\* three processes at once: one was killed by its timeout and has not closed
ThreeProcesses == Cardinality(RunningProcesses) > maxConcurrent

(***************************************************************************)
(* Incremental refresh (Spec)                                              *)
(***************************************************************************)
\* the node of the same query in this.cachedQueries: its last build
LastBuilds(node) ==
    {i \in 1..Len(cachedQueries) :
        /\ cachedQueries[i].name = node.name
        /\ cachedQueries[i].queryId = node.queryId
        /\ cachedQueries[i].queryPath = node.queryPath}

\* the node comes from a cache entry within its TTL, and the fingerprint of
\* its records and rules is that of the query's last build
NodeUnchanged(node) ==
    /\ node.error = UNSET
    /\ node.fromCache
    /\ \E i \in LastBuilds(node) : cachedQueries[i].hash = node.hash

\* refresh() leaves its loop as the current generation
Commits(g) ==
    /\ LoopStep(g)
    /\ g = currentGeneration
    /\ tasks[g].index > Len(tasks[g].queries)

\* the node BuildNode(g) pushed
Pushed(g) == tasks'[g].queryNodes[Len(tasks'[g].queryNodes)]

\* C20: on a refresh, a query whose fingerprint is that of its last build
\* and whose cache entry is within the TTL is not rebuilt, and a refresh
\* whose queries are all such fires no tree-change event; a query that was
\* retrieved anew or whose fingerprint differs is rebuilt, and the refresh
\* fires the event.
C20_IncrementalRefresh ==
    [][\A g \in Generations :
          /\ (BuildNode(g) /\ NodeUnchanged(Pushed(g))) => "buildTree" \notin calls'
          /\ (BuildNode(g) /\ tasks[g].result.success /\ ~NodeUnchanged(Pushed(g)))
                 => "buildTree" \in calls'
          /\ (Commits(g) /\ \A i \in 1..Len(tasks[g].queryNodes) : NodeUnchanged(tasks[g].queryNodes[i]))
                 => "fire" \notin calls'
          /\ (Commits(g) /\ \E i \in 1..Len(tasks[g].queryNodes) : ~NodeUnchanged(tasks[g].queryNodes[i]))
                 => "fire" \in calls']_vars

\* what refresh() does: every successful result is built into a tree and
\* every refresh that completes fires the event
EveryRefreshRebuilds ==
    [][\A g \in Generations :
          /\ (BuildNode(g) /\ tasks[g].result.success) => "buildTree" \in calls'
          /\ Commits(g) => "fire" \in calls']_vars

\* a refresh rebuilt an unchanged query from the cache and fired the event
RebuiltUnchanged ==
    /\ calls = {"fire"}
    /\ ~isLoading
    /\ Len(cachedQueries) > 0
    /\ \A i \in 1..Len(cachedQueries) :
          /\ cachedQueries[i].fromCache
          /\ cachedQueries[i].error = UNSET
          /\ Len(cachedQueries[i].children) > 0

(***************************************************************************)
(* Leaf placement (SpecTree)                                               *)
(***************************************************************************)
\* the leaves of a node list, each with the <<level, key>> of its ancestors
\* from the top down
RECURSIVE LeafPaths(_, _)
LeafPaths(nodes, path) ==
    IF Len(nodes) = 0 THEN {}
    ELSE (IF nodes[1].type = "workItem"
          THEN {[id |-> nodes[1].id, path |-> path]}
          ELSE LeafPaths(nodes[1].children, Append(path, <<nodes[1].level, nodes[1].key>>)))
             \cup LeafPaths(Tail(nodes), path)

\* where groupRecursive puts a record: below the group of its key at every level
ExpectedPath(workItem) ==
    [l \in 1..Len(groupSpecs) |-> <<l - 1, getFieldValue(workItem, groupSpecs[l], today)>>]

\* C21: under 1 to 5 rules every record is exactly one leaf, at depth n, below
\* the groups whose level is L and whose key is the record's key for rule L;
\* sibling groups have distinct keys, and a group of one record stays a group.
C21_LeafPlacement ==
    (enginePc = "built" /\ Len(groupSpecs) \in 1..MaxGroupLevels) =>
        /\ LeafCount(tree) = Len(workItems)
        /\ \A k \in 1..Len(workItems) :
              [id |-> workItems[k].id, path |-> ExpectedPath(workItems[k])] \in LeafPaths(tree, <<>>)
        /\ \A siblings \in SiblingLists :
              \A i, j \in 1..Len(siblings) :
                  (i # j /\ siblings[i].type = "group") => siblings[i].key # siblings[j].key

\* C21 witness: three records under five rules, spread over several top-level
\* groups, one of which holds a single record five levels down.
C21_Witness ==
    /\ enginePc = "built"
    /\ Len(groupSpecs) = MaxGroupLevels
    /\ Len(workItems) = 3
    /\ Len(tree) = 2
    /\ \E i \in 1..Len(tree) : tree[i].count = 1 /\ Depth(tree[i].children) = MaxGroupLevels - 1

(***************************************************************************)
(* SpecOrder: buildTree on a record list, then on the same records in      *)
(* another order. The records differ in one grouped field and in priority. *)
(***************************************************************************)
\* the values of the grouped field: missing, no date, dates before, on and
\* after today, numbers and words
OrderFieldValues ==
    {Undefined, Str("not a date"), Str("2026-11-04T09:30:00"), Str("2026-11-05T23:59:00"),
     Str("2026-11-07T18:00:00"), Str("2026-11-13T00:00:00"), Str("3"), Str("10"),
     Str("Active"), Str("Closed")}

OrderPriorities == {Undefined, Num(1), Num(2), Num(999), Num(1000)}

\* the (grouped field, priority) pairs of a record
OrderRecordKinds ==
    {<<v, Num(2)>> : v \in OrderFieldValues} \cup {<<Undefined, p>> : p \in OrderPriorities}

OrderRecord(id, kind) ==
    WorkItem(id, [NoFields EXCEPT ![FDueDate] = kind[1], ![FPriority] = kind[2]])

OrderRecordLists ==
    UNION {{[i \in 1..n |-> OrderRecord(i, kinds[i])] : kinds \in [1..n -> OrderRecordKinds]} :
               n \in 0..MaxOrderItems}

OrderRuleLists ==
    {<<>>, <<FieldRule(FDueDate)>>, <<GroupSpec(FDueDate, UNSET, UNSET, "date")>>,
     <<GroupSpec(FDueDate, UNSET, "(no date)", "date")>>}

OrderInit ==
    /\ workItems \in OrderRecordLists
    /\ otherItems = <<>>
    /\ groupSpecs \in OrderRuleLists
    /\ hashA = ""
    /\ hashB = ""
    /\ edits = 0
    /\ tree = <<>>
    /\ today = FirstDay
    /\ fieldKeys = <<>>
    /\ enginePc = "input"
    /\ Constructed(DefaultSettings)

\* buildTree(workItems, groupSpecs)
BuildInOrder ==
    /\ enginePc = "input"
    /\ otherItems' = workItems
    /\ tree' = buildTree(workItems, groupSpecs, today)
    /\ enginePc' = "built"
    /\ UNCHANGED <<workItems, groupSpecs, hashA, hashB, edits, today, fieldKeys, programVars>>

\* buildTree on the same records in the order p
BuildReordered(p) ==
    /\ enginePc = "built"
    /\ Len(p) = Len(workItems)
    /\ otherItems' = [i \in 1..Len(p) |-> workItems[p[i]]]
    /\ tree' = buildTree(otherItems', groupSpecs, today)
    /\ enginePc' = "rebuilt"
    /\ UNCHANGED <<workItems, groupSpecs, hashA, hashB, edits, today, fieldKeys, programVars>>

\* the orders of up to MaxOrderItems records
Orders == UNION {InjectiveSeqs(1..n, n) : n \in 0..MaxOrderItems}

OrderNext ==
    \/ BuildInOrder
    \/ \E p \in Orders : BuildReordered(p)

SpecOrder == OrderInit /\ [][OrderNext]_vars

\* C22: buildTree gives the same tree for the same records in any order.
C22_OrderIndependent ==
    [][\A p \in Orders : BuildReordered(p) => tree' = tree]_vars

\* two orders of the same records gave two trees
TwoTrees ==
    /\ enginePc = "rebuilt"
    /\ IsPermutation(workItems, otherItems)
    /\ tree # buildTree(workItems, groupSpecs, today)

(***************************************************************************)
(* Generations of refresh() (Spec)                                         *)
(***************************************************************************)
\* refresh() leaves its try block through the catch
Throws(g) == CliClose(g, CliOutcome("object", <<>>, UNSET))

OrderBuilt == enginePc \in {"built", "rebuilt"}

\* the whole key is the decimal form of a number
ParsesFully(key) == \E n \in KeyNumbers : ToString(n) = key

NumberOf(key) == CHOOSE n \in KeyNumbers : ToString(n) = key

\* C24: under a rule that is no date-bucket rule, two sibling keys other than
\* the missing label stand in ascending numeric order when both are numbers
\* in full, and in ascending locale order in every other case.
C24_NumericOrLocale ==
    (OrderBuilt /\ Len(groupSpecs) = 1 /\ groupSpecs[1].bucket # "date") =>
        \A i, j \in 1..Len(tree) :
            (/\ i < j
             /\ tree[i].key # MissingLabelOf(groupSpecs[1])
             /\ tree[j].key # MissingLabelOf(groupSpecs[1]))
                => IF ParsesFully(tree[i].key) /\ ParsesFully(tree[j].key)
                   THEN NumberOf(tree[i].key) < NumberOf(tree[j].key)
                   ELSE localeCompare(tree[i].key, tree[j].key) < 0

\* a key that only begins with a number was ordered by that number: "3"
\* stands before a date of 2026, which the locale order puts first
OrderedByLeadingNumber ==
    /\ OrderBuilt
    /\ Len(groupSpecs) = 1
    /\ groupSpecs[1].bucket # "date"
    /\ Len(tree) = 2
    /\ tree[1].key = "3"
    /\ tree[2].key = "2026-11-04T09:30:00"

\* the bucket names in the order the claim gives them
BucketNames == <<"overdue", "today", "thisWeek", "future", "none">>

\* the place of a key in that order; a key that is no bucket name comes after
PlaceOf(key) ==
    IF \E k \in 1..Len(BucketNames) : BucketNames[k] = key
    THEN CHOOSE k \in 1..Len(BucketNames) : BucketNames[k] = key
    ELSE Len(BucketNames) + 1

\* C25: at a level grouped by a date-bucket rule the sibling groups stand in
\* the order overdue, today, thisWeek, future, none, and a group whose key is
\* none of these (the missing-label group) comes after all of them.
C25_BucketOrder ==
    (OrderBuilt /\ Len(groupSpecs) = 1 /\ groupSpecs[1].bucket = "date") =>
        \A i, j \in 1..Len(tree) : i < j => PlaceOf(tree[i].key) < PlaceOf(tree[j].key)

\* C25 witness: the record without a date came first and one whose date does
\* not parse second; their groups stand last and next to last, after today.
C25_Witness ==
    /\ OrderBuilt
    /\ Len(groupSpecs) = 1
    /\ groupSpecs[1].bucket = "date"
    /\ groupSpecs[1].missingLabel = "(no date)"
    /\ Len(otherItems) = 3
    /\ otherItems[1].fields[FDueDate] = Undefined
    /\ otherItems[2].fields[FDueDate] = Str("not a date")
    /\ Len(tree) = 3
    /\ tree[1].key = "today"
    /\ tree[2].key = "none"
    /\ tree[3].key = "(no date)"

\* the leaf lists of the tree
LeafLists == {l \in SiblingLists : Len(l) > 0 /\ l[1].type = "workItem"}

\* C26, as stated: in every leaf list an item without a priority comes after
\* every item that has one, whatever that priority is, and two items without
\* a priority stand in ascending id order.
C26_MissingPriorityLast ==
    OrderBuilt =>
        \A l \in LeafLists : \A i, j \in 1..Len(l) :
            i < j =>
                /\ ~(Nullish(l[i].priority) /\ ~Nullish(l[j].priority))
                /\ (Nullish(l[i].priority) /\ Nullish(l[j].priority)) => l[i].id < l[j].id

\* C26, amended: an item without a priority sorts as priority 999: after every
\* item whose priority is below 999, before every item whose priority is
\* above 999, and by ascending id against an item of priority 999 or another
\* item without a priority.
C26_MissingPriorityAs999 ==
    OrderBuilt =>
        \A l \in LeafLists : \A i, j \in 1..Len(l) :
            (i < j /\ (Nullish(l[i].priority) \/ Nullish(l[j].priority))) =>
                LET pi == IF Nullish(l[i].priority) THEN DefaultPriority ELSE l[i].priority.n
                    pj == IF Nullish(l[j].priority) THEN DefaultPriority ELSE l[j].priority.n
                IN  pi < pj \/ (pi = pj /\ l[i].id < l[j].id)

\* C26 witness: the record without a priority came first and stands between
\* the items of priority 1 and 1000.
C26_Witness ==
    /\ OrderBuilt
    /\ Len(groupSpecs) = 0
    /\ Len(otherItems) = 3
    /\ otherItems[1].fields[FPriority] = Undefined
    /\ Len(tree) = 3
    /\ tree[1].priority = Num(1)
    /\ Nullish(tree[2].priority)
    /\ tree[3].priority = Num(1000)

(***************************************************************************)
(* SpecLoad: the refresh() of activate() over three configured queries,    *)
(* with no other command and no other refresh running.                     *)
(***************************************************************************)
QEpics == QueryDefinition("Epics", "q-3", UNSET, FALSE, <<>>)

ThreeQueries == <<QBugs, QTasks, QEpics>>

LoadInit ==
    /\ workItems = <<>>
    /\ otherItems = <<>>
    /\ groupSpecs = <<>>
    /\ hashA = ""
    /\ hashB = ""
    /\ edits = 0
    /\ tree = <<>>
    /\ today = FirstDay
    /\ fieldKeys = <<>>
    /\ enginePc = "idle"
    /\ \E ttl \in CacheTtlChoices :
           Constructed([DefaultSettings EXCEPT !.queries = ThreeQueries, !.cacheTtlSeconds = ttl])

LoadNext ==
    \/ Activate
    \/ \E g \in Generations : LoopStep(g)
    \/ \E g \in Generations : \E outcome \in CliOutcomes : CliClose(g, outcome)
    \/ \E g \in Generations : BuildNode(g)

SpecLoad == LoadInit /\ [][LoadNext]_vars

\* the refresh() invocations that await a CLI process
Awaiting == {g \in Generations : tasks[g].pc = "awaitCli"}

\* C27: within one refresh the retrieval of a query starts only when the
\* nodes of all queries before it are built; a refresh running alone has at
\* most one CLI process at any time and never gets the 'Too many concurrent
\* CLI processes' failure, here with three queries against a limit of two.
C27_SequentialLoad ==
    /\ Cardinality(Awaiting) <= 1
    /\ concurrentProcesses = Cardinality(Awaiting)
    /\ \A g \in Generations :
          /\ tasks[g].pc \in {"awaitCli", "gotResult"} => Len(tasks[g].queryNodes) = tasks[g].index - 1
          /\ tasks[g].result.message # TooManyMessage
          /\ \A i \in 1..Len(tasks[g].queryNodes) : tasks[g].queryNodes[i].error # TooManyMessage
    /\ \A i \in 1..Len(cachedQueries) : cachedQueries[i].error # TooManyMessage

\* C27 witness: the retrieval of the third query runs, which is more queries
\* than the runner allows processes, after the nodes of the first two were
\* built from retrieved records.
C27_Witness ==
    /\ tasks[1].pc = "awaitCli"
    /\ tasks[1].index = Len(ThreeQueries)
    /\ Len(ThreeQueries) > maxConcurrent
    /\ Len(tasks[1].queryNodes) = 2
    /\ tasks[1].queryNodes[1].count > 0
    /\ tasks[1].queryNodes[2].count > 0
    /\ concurrentProcesses = 1

(***************************************************************************)
(* One refresh in flight.                                                  *)
(***************************************************************************)
\* the refresh() invocations that have entered their query loop and not
\* returned
InLoop == {g \in Generations : tasks[g].pc # "idle"}

\* a request for a refresh: the timer callback, forceRefresh(), a
\* configuration change
RefreshRequest ==
    \/ TimerRefresh
    \/ ForceRefresh
    \/ \E member \in SettingsMembers : \E value \in SettingsChoices(member) : ConfigChange(member, value)

\* C28: in every interleaving of refresh requests, timer ticks and
\* configuration changes, isLoading is true exactly while one refresh() is in
\* its query loop; a request that arrives while isLoading is true leaves
\* currentGeneration as it is and starts no retrieval; currentGeneration does
\* not change from the start of a refresh to its completion.
C28_OneRefreshInFlight ==
    /\ [](/\ isLoading <=> InLoop # {}
          /\ Cardinality(InLoop) <= 1
          /\ InLoop \subseteq {currentGeneration})
    /\ [][(isLoading /\ RefreshRequest) =>
              /\ currentGeneration' = currentGeneration
              /\ isLoading'
              /\ concurrentProcesses' = concurrentProcesses
              /\ \A g \in Generations :
                    /\ tasks'[g].pc = tasks[g].pc
                    /\ tasks'[g].index = tasks[g].index
                    /\ tasks'[g].executed = tasks[g].executed]_vars
    /\ [][(isLoading /\ isLoading') => currentGeneration' = currentGeneration]_vars
    /\ [][(InLoop # {} /\ InLoop' # {}) => InLoop' = InLoop]_vars

\* C28 witness: a forceRefresh() arrived while the second refresh awaited
\* its CLI process (it marked the node that refresh holds), and that refresh
\* is still the current generation.
C28_Witness ==
    /\ isLoading
    /\ currentGeneration = 2
    /\ tasks[2].pc = "awaitCli"
    /\ \E i \in 1..Len(tasks[2].queryNodes) : tasks[2].queryNodes[i].preForce

(***************************************************************************)
(* SpecLive: the event loop runs the continuations of refresh() that are   *)
(* ready, and every CLI process that was spawned ends (with any outcome).  *)
(***************************************************************************)
LiveNext ==
    \/ Activate
    \/ TimerRefresh
    \/ ForceRefresh
    \/ OtherExecute
    \/ OtherClose
    \/ \E g \in Generations : LoopStep(g)
    \/ \E g \in Generations : \E outcome \in CliOutcomes : CliClose(g, outcome)
    \/ \E g \in Generations : BuildNode(g)

\* loadQueryNode has its result and its continuation is ready to run; this
\* is ENABLED <<\E g : BuildNode(g)>>_vars, as BuildNode moves pc to "loop"
BuildReady == \E g \in Generations : tasks[g].pc = "gotResult"

\* WF_vars(\E g : BuildNode(g)), written out with BuildReady for its
\* ENABLED
BuildNodeRuns ==
    \/ []<>(~BuildReady)
    \/ []<><<\E g \in Generations : BuildNode(g)>>_vars

SpecLive ==
    /\ Init
    /\ [][LiveNext]_vars
    /\ WF_vars(\E g \in Generations : LoopStep(g))
    /\ BuildNodeRuns
    /\ WF_vars(\E g \in Generations : \E outcome \in CliOutcomes : CliClose(g, outcome))

\* C29: when every CLI process ends, a refresh() that set isLoading
\* eventually clears it, in a step that fires the tree-change event, whatever
\* the outcomes of its queries.
C29_LoadingEnds == isLoading ~> (~isLoading /\ "fire" \in calls)

\* C29 witness: a refresh() ended by a thrown error has cleared isLoading
\* and fired the event.
C29_Witness ==
    /\ ~isLoading
    /\ "fire" \in calls
    /\ lastError = SliceError

(***************************************************************************)
(* Failed retrievals and the cache.                                        *)
(***************************************************************************)
\* a step in which the getWorkItemsForQuery call of refresh() g returns a
\* failure
ReturnsFailure(g) ==
    /\ tasks[g].pc \in {"loop", "awaitCli"}
    /\ tasks'[g].pc = "gotResult"
    /\ ~tasks'[g].result.success

\* the call of refresh() g that starts in this step is for a query whose
\* node in the tree came from a failed retrieval
RetriesFailed(g) ==
    LET i == tasks[g].index
    IN  /\ tasks[g].pc = "loop"
        /\ tasks'[g].pc \in {"gotResult", "awaitCli"}
        /\ i <= Len(cachedQueries)
        /\ cachedQueries[i].error # UNSET
        /\ cachedQueries[i].name = tasks[g].queries[i].name

\* C30: a step in which getWorkItemsForQuery returns a failure leaves the
\* cache as it is, and without queryId and queryPath it runs no CLI process;
\* the next call for a query whose retrieval failed is no cache hit: it goes
\* to the CLI again (or fails again without one).
C30_FailureNotCached ==
    /\ [][\A g \in Generations : ReturnsFailure(g) =>
              /\ cache' = cache
              /\ ~HasTarget(tasks[g].queries[tasks[g].index]) =>
                    (~tasks'[g].executed /\ concurrentProcesses' = concurrentProcesses)]_vars
    /\ [][\A g \in Generations : RetriesFailed(g) =>
              (tasks'[g].executed \/ ~tasks'[g].result.success)]_vars
    /\ [](\A e \in cache : Len(e.data) > 0)

\* C30 witness: the first query's retrieval failed in the first refresh and
\* its failure is in the tree; the second refresh has a CLI process running
\* for the same query, with nothing cached for it.
C30_Witness ==
    /\ currentGeneration = 2
    /\ tasks[2].pc = "awaitCli"
    /\ tasks[2].index = 1
    /\ Len(cachedQueries) > 0
    /\ cachedQueries[1].error = ErrorMessage("query_not_found")
    /\ cachedQueries[1].name = tasks[2].queries[1].name
    /\ CacheGet(cache, tasks[2].cacheKey) = NoEntry

====
